---- MODULE Spec2Model ----
(***************************************************************************)
(* Drum / grid inventory of src/app.py.                                    *)
(*                                                                         *)
(* The store is the SQLite file inventory.db.  Every script run opens its  *)
(* own connection (app.py:203), so concurrent browser sessions are         *)
(* concurrent connections.  The sqlite3 module opens a transaction         *)
(* implicitly before the first INSERT/UPDATE/DELETE of a run and keeps it  *)
(* until conn.commit(); SELECTs (pd.read_sql_query) run outside it and see *)
(* the committed database only.  SQLite allows one writer at a time.       *)
(*                                                                         *)
(*   db    the committed database                                          *)
(*   wdb   the database as the connection holding the write lock sees it   *)
(*         (equal to db while nobody writes)                               *)
(*   lock  the session holding SQLite's write lock, 0 for none             *)
(*   sess  per session: position in the script run and its local variables *)
(*   clock source of datetime.now()                                        *)
(***************************************************************************)
EXTENDS Integers, Sequences, FiniteSets, TLC

VARIABLES db, wdb, lock, sess, clock

vars == <<db, wdb, lock, sess, clock>>

----------------------------------------------------------------------------
(* Bounds of the model *)

NumSessions == 2
NumDrums == 2
NumGridInputs == 2
NumOrders == 1
MaxClock == 3

(* Values typed into the forms *)
DrumNames == <<"D001", "D002", "D003", "D004">>
GridNames == <<"A1", "A2", "A3", "B1", "B2", "B3", "C1", "C2", "C3">>
OrderNames == <<"O-100", "O-200", "O-300">>

Sessions == 1..NumSessions
DrumIDs == {DrumNames[i] : i \in 1..NumDrums}
OrderNos == {OrderNames[i] : i \in 1..NumOrders}
RAs == {"M1"}
NoSuchGrid == "Z9"
GridInputs == {GridNames[i] : i \in 1..NumGridInputs} \cup {NoSuchGrid}

NULL == "NULL"

----------------------------------------------------------------------------
(* Schema and seeding *)

FixedGrids == {GridNames[i] : i \in 1..9}

DrumRow(d, o, r, st, g, t) ==
    [DrumID |-> d, OrderNo |-> o, RA |-> r, Status |-> st,
     CurrentGrid |-> g, LastUpdated |-> t]

GridRow(g, st, d) == [GridID |-> g, Status |-> st, CurrentDrumID |-> d]

TxnRow(id, d, g, st, t) ==
    [TxnID |-> id, DrumID |-> d, GridID |-> g, Status |-> st, Timestamp |-> t]

HistRow(id, d, o, r, st, g, t) ==
    [HistID |-> id, DrumID |-> d, OrderNo |-> o, RA |-> r, Status |-> st,
     GridID |-> g, Timestamp |-> t]

(* INSERT OR IGNORE of the nine slots: existing rows are kept *)
SeedGrids(grids) ==
    [g \in DOMAIN grids \cup FixedGrids |->
        IF g \in DOMAIN grids THEN grids[g] ELSE GridRow(g, "Available", NULL)]

EmptyTable == [x \in {} |-> NULL]

create_tables ==
    [drums |-> EmptyTable,
     grids |-> SeedGrids(EmptyTable),
     transactions |-> <<>>,
     drum_history |-> <<>>,
     txn_seq |-> 0,
     hist_seq |-> 0]

----------------------------------------------------------------------------
(* DB helpers: the SQL statements as functions of the database *)

get_drum(store, d) ==
    IF d \in DOMAIN store.drums THEN {store.drums[d]} ELSE {}

get_all_drums(store) == {store.drums[d] : d \in DOMAIN store.drums}

get_all_grids(store) == {store.grids[g] : g \in DOMAIN store.grids}

get_drums_by_orderno(store, o) ==
    {row \in get_all_drums(store) : row.OrderNo = o}

get_drum_history(store) ==
    {store.drum_history[i] : i \in 1..Len(store.drum_history)}

(* Mutant: the WHERE Status='Available' is lost *)
get_available_grids_all(store) == DOMAIN store.grids

get_available_grids(store) ==
    {g \in DOMAIN store.grids : store.grids[g].Status = "Available"}

(* Mutant: INSERT OR IGNORE, a row that exists is kept as it is *)
insert_drum_Ignore(store, d, o, r, now) ==
    [store EXCEPT !.drums =
        [x \in DOMAIN store.drums \cup {d} |->
            IF x \in DOMAIN store.drums THEN store.drums[x]
            ELSE DrumRow(d, o, r, "OUT", NULL, now)]]

(* INSERT OR REPLACE INTO drums ... 'OUT', None *)
insert_drum(store, d, o, r, now) ==
    [store EXCEPT !.drums =
        [x \in DOMAIN store.drums \cup {d} |->
            IF x = d THEN DrumRow(d, o, r, "OUT", NULL, now) ELSE store.drums[x]]]

(* Mutant: only OrderNo and RA are overwritten *)
update_drum_info_KeepStatus(store, d, o, r, now) ==
    [store EXCEPT !.drums =
        [x \in DOMAIN store.drums |->
            IF x = d
            THEN [store.drums[x] EXCEPT !.OrderNo = o, !.RA = r, !.LastUpdated = now]
            ELSE store.drums[x]]]

(* UPDATE drums SET OrderNo, RA, Status='OUT', CurrentGrid=NULL WHERE DrumID *)
update_drum_info(store, d, o, r, now) ==
    [store EXCEPT !.drums =
        [x \in DOMAIN store.drums |->
            IF x = d
            THEN [store.drums[x] EXCEPT !.OrderNo = o, !.RA = r, !.Status = "OUT",
                                        !.CurrentGrid = NULL, !.LastUpdated = now]
            ELSE store.drums[x]]]

(* update_drum_in, first statement: UPDATE drums SET Status='IN', CurrentGrid *)
UpdateDrumsIn(store, d, g, now) ==
    [store EXCEPT !.drums =
        [x \in DOMAIN store.drums |->
            IF x = d
            THEN [store.drums[x] EXCEPT !.Status = "IN", !.CurrentGrid = g,
                                        !.LastUpdated = now]
            ELSE store.drums[x]]]

(* Mutant: the grid is marked Occupied without recording the drum *)
UpdateGridsOccupied_NoDrum(store, d, g) ==
    [store EXCEPT !.grids =
        [x \in DOMAIN store.grids |->
            IF x = g THEN [store.grids[x] EXCEPT !.Status = "Occupied"]
            ELSE store.grids[x]]]

(* update_drum_in, second statement: UPDATE grids SET Status='Occupied' *)
UpdateGridsOccupied(store, d, g) ==
    [store EXCEPT !.grids =
        [x \in DOMAIN store.grids |->
            IF x = g
            THEN [store.grids[x] EXCEPT !.Status = "Occupied", !.CurrentDrumID = d]
            ELSE store.grids[x]]]

(* Mutant: the new record takes the place of the last one *)
InsertTransaction_Overwrite(store, d, g, st, now) ==
    [store EXCEPT !.transactions =
                      IF store.transactions = <<>>
                      THEN <<TxnRow(store.txn_seq + 1, d, g, st, now)>>
                      ELSE [store.transactions EXCEPT
                               ![Len(store.transactions)] =
                                   TxnRow(store.txn_seq + 1, d, g, st, now)],
                  !.txn_seq = store.txn_seq + 1]

(* INSERT INTO transactions; TxnID is AUTOINCREMENT *)
InsertTransaction(store, d, g, st, now) ==
    [store EXCEPT !.transactions =
                      Append(store.transactions,
                             TxnRow(store.txn_seq + 1, d, g, st, now)),
                  !.txn_seq = store.txn_seq + 1]

(* Mutant: the history is logged from the drum row as it is after clearing *)
InsertHistory_Cleared(store, d, row, g, now) ==
    [store EXCEPT !.drum_history =
                      Append(store.drum_history,
                             HistRow(store.hist_seq + 1, d, NULL, NULL, "OUT", g, now)),
                  !.hist_seq = store.hist_seq + 1]

(* Mutant: the history record takes its own, later timestamp *)
InsertHistory_OwnTime(store, d, row, g, now) ==
    [store EXCEPT !.drum_history =
                      Append(store.drum_history,
                             HistRow(store.hist_seq + 1, d, row.OrderNo, row.RA,
                                     "OUT", g, now + 1)),
                  !.hist_seq = store.hist_seq + 1]

(* update_drum_out: INSERT INTO drum_history from the row read before *)
InsertHistory(store, d, row, g, now) ==
    [store EXCEPT !.drum_history =
                      Append(store.drum_history,
                             HistRow(store.hist_seq + 1, d, row.OrderNo, row.RA,
                                     "OUT", g, now)),
                  !.hist_seq = store.hist_seq + 1]

(* Mutant: the retrieval leaves CurrentGrid as it is *)
UpdateDrumsOut_KeepGrid(store, d, now) ==
    [store EXCEPT !.drums =
        [x \in DOMAIN store.drums |->
            IF x = d
            THEN [store.drums[x] EXCEPT !.Status = "OUT", !.OrderNo = NULL,
                                        !.RA = NULL, !.LastUpdated = now]
            ELSE store.drums[x]]]

(* update_drum_out: UPDATE drums SET Status='OUT', OrderNo=NULL, RA=NULL, ... *)
UpdateDrumsOut(store, d, now) ==
    [store EXCEPT !.drums =
        [x \in DOMAIN store.drums |->
            IF x = d
            THEN [store.drums[x] EXCEPT !.Status = "OUT", !.OrderNo = NULL,
                                        !.RA = NULL, !.CurrentGrid = NULL,
                                        !.LastUpdated = now]
            ELSE store.drums[x]]]

(* Mutant: the occupant is removed but the grid stays Occupied *)
UpdateGridsAvailable_Occupied(store, g) ==
    [store EXCEPT !.grids =
        [x \in DOMAIN store.grids |->
            IF x = g
            THEN [store.grids[x] EXCEPT !.CurrentDrumID = NULL]
            ELSE store.grids[x]]]

(* update_drum_out: UPDATE grids SET Status='Available', CurrentDrumID=NULL *)
UpdateGridsAvailable(store, g) ==
    [store EXCEPT !.grids =
        [x \in DOMAIN store.grids |->
            IF x = g
            THEN [store.grids[x] EXCEPT !.Status = "Available", !.CurrentDrumID = NULL]
            ELSE store.grids[x]]]

(* Mutant: DELETE FROM grids is missing *)
DeleteGrids_Skip(store) == store

(* The reset handler's statements *)
DeleteDrums(store) == [store EXCEPT !.drums = EmptyTable]
DeleteGrids(store) == [store EXCEPT !.grids = EmptyTable]
DeleteTransactions(store) == [store EXCEPT !.transactions = <<>>]
DeleteHistory(store) == [store EXCEPT !.drum_history = <<>>]
ReseedGrids(store) == [store EXCEPT !.grids = SeedGrids(store.grids)]

----------------------------------------------------------------------------
(* Sessions *)

IdleWith(res) ==
    [pc |-> "idle", drum_id |-> NULL, order_no |-> NULL, ra |-> NULL,
     button |-> NULL, grid_id |-> NULL, drum |-> {}, now |-> 0, result |-> res]

Init ==
    /\ db = create_tables
    /\ wdb = create_tables
    /\ lock = 0
    /\ sess = [s \in Sessions |-> IdleWith("none")]
    /\ clock = 1

Set(s, rec) == sess' = [sess EXCEPT ![s] = rec]

HasTime == clock <= MaxClock

(* conn.commit(): the connection's writes become the committed database *)
CommitBy(s) ==
    /\ lock = s
    /\ db' = wdb
    /\ lock' = 0
    /\ UNCHANGED <<wdb, clock>>

(* Mutant: autocommit, every statement is committed as it runs *)
WriteMore_Autocommit(s, store) ==
    /\ lock = s
    /\ wdb' = store
    /\ db' = store
    /\ UNCHANGED <<lock, clock>>

(* A statement inside the open transaction *)
WriteMore(s, store) ==
    /\ lock = s
    /\ wdb' = store
    /\ UNCHANGED <<db, lock, clock>>

(* The first write statement of a run opens the transaction: it takes
   SQLite's write lock and works on a private copy of the database. *)
WriteFirst(s, store) ==
    /\ lock = 0
    /\ wdb' = store
    /\ lock' = s
    /\ UNCHANGED db

----------------------------------------------------------------------------
(* Drum IN page, drum_in *)

needs_new_info(drum) == drum = {} \/ \E row \in drum : row.Status = "OUT"

(* "Add/Update Drum Info" pressed, app.py:152-163: get_drum decides whether
   the button exists and which statement it runs *)
SaveDrumClick(s, d, o, r) ==
    /\ sess[s].pc = "idle"
    /\ LET drum == get_drum(db, d)
       IN  IF needs_new_info(drum)
           THEN Set(s, [IdleWith("none") EXCEPT
                            !.pc = "in_save", !.drum_id = d, !.order_no = o,
                            !.ra = r, !.button = "save", !.drum = drum])
           ELSE Set(s, IdleWith("already_in"))
    /\ UNCHANGED <<db, wdb, lock, clock>>

(* app.py:164-165 and insert_drum's execute *)
InsertDrum(s) ==
    /\ sess[s].pc = "in_save"
    /\ sess[s].drum = {}
    /\ HasTime
    /\ WriteFirst(s, insert_drum(db, sess[s].drum_id, sess[s].order_no,
                                 sess[s].ra, clock))
    /\ clock' = clock + 1
    /\ Set(s, [sess[s] EXCEPT !.pc = "in_save_commit", !.now = clock])

(* app.py:166-167 and update_drum_info's execute *)
UpdateDrumInfo(s) ==
    /\ sess[s].pc = "in_save"
    /\ sess[s].drum # {}
    /\ HasTime
    /\ WriteFirst(s, update_drum_info(db, sess[s].drum_id, sess[s].order_no,
                                      sess[s].ra, clock))
    /\ clock' = clock + 1
    /\ Set(s, [sess[s] EXCEPT !.pc = "in_save_commit", !.now = clock])

(* app.py:85 / app.py:91, then "Drum info saved!"; the rest of the run
   (app.py:172-176) only displays *)
SaveCommit(s) ==
    /\ sess[s].pc = "in_save_commit"
    /\ CommitBy(s)
    /\ Set(s, IdleWith("saved"))

(* "Place Drum in Grid" pressed, app.py:152-157 and 172-181: the drum read
   is only displayed; the typed grid is tested against the list
   get_available_grids returned *)
PlaceDrumClick(s, d, g) ==
    /\ sess[s].pc = "idle"
    /\ LET available_grids == get_available_grids(db)
       IN  IF g \in available_grids
           THEN Set(s, [IdleWith("none") EXCEPT
                            !.pc = "in_place_drums", !.drum_id = d,
                            !.grid_id = g, !.button = "place",
                            !.drum = get_drum(db, d)])
           ELSE Set(s, IdleWith("grid_unavailable"))
    /\ UNCHANGED <<db, wdb, lock, clock>>

(* update_drum_in, app.py:94-95 *)
UpdateDrumIn_Drums(s) ==
    /\ sess[s].pc = "in_place_drums"
    /\ HasTime
    /\ WriteFirst(s, UpdateDrumsIn(db, sess[s].drum_id, sess[s].grid_id, clock))
    /\ clock' = clock + 1
    /\ Set(s, [sess[s] EXCEPT !.pc = "in_place_grids", !.now = clock])

(* update_drum_in, app.py:96 *)
UpdateDrumIn_Grids(s) ==
    /\ sess[s].pc = "in_place_grids"
    /\ WriteMore(s, UpdateGridsOccupied(wdb, sess[s].drum_id, sess[s].grid_id))
    /\ Set(s, [sess[s] EXCEPT !.pc = "in_place_txn"])

(* update_drum_in, app.py:97 *)
UpdateDrumIn_Txn(s) ==
    /\ sess[s].pc = "in_place_txn"
    /\ WriteMore(s, InsertTransaction(wdb, sess[s].drum_id, sess[s].grid_id,
                                      "IN", sess[s].now))
    /\ Set(s, [sess[s] EXCEPT !.pc = "in_place_commit"])

(* update_drum_in, app.py:98, then app.py:179 *)
UpdateDrumIn_Commit(s) ==
    /\ sess[s].pc = "in_place_commit"
    /\ CommitBy(s)
    /\ Set(s, IdleWith("placed"))

----------------------------------------------------------------------------
(* Drum OUT page, drum_out *)

(* Mutant: the retrieve button is offered whatever the Status *)
drum_is_in_any(drum) == drum # {}

(* app.py:192: drum.iloc[0]['Status'] == "IN" *)
drum_is_in(drum) == \E row \in drum : row.Status = "IN"

(* app.py:185-199: get_drum and the branches on it *)
DrumOutGetDrum(s, d) ==
    /\ sess[s].pc = "idle"
    /\ LET drum == get_drum(db, d)
       IN  IF drum = {}
           THEN Set(s, IdleWith("not_found"))
           ELSE IF drum_is_in(drum)
           THEN Set(s, [IdleWith("none") EXCEPT !.pc = "out_read", !.drum_id = d,
                                                !.button = "out", !.drum = drum])
           ELSE Set(s, IdleWith("already_out"))
    /\ UNCHANGED <<db, wdb, lock, clock>>

(* app.py:103: drum.empty or drum.iloc[0]['CurrentGrid'] is None *)
not_placed(drum) == drum = {} \/ \E row \in drum : row.CurrentGrid = NULL

(* update_drum_out, app.py:101-105: now, get_drum, the early return (which
   discards the timestamp, so none is drawn for it) *)
UpdateDrumOut_Read(s) ==
    /\ sess[s].pc = "out_read"
    /\ LET drum == get_drum(db, sess[s].drum_id)
       IN  IF not_placed(drum)
           THEN /\ Set(s, IdleWith("not_placed"))
                /\ UNCHANGED clock
           ELSE /\ HasTime
                /\ clock' = clock + 1
                /\ Set(s, [sess[s] EXCEPT
                              !.pc = "out_hist", !.drum = drum, !.now = clock,
                              !.grid_id = (CHOOSE row \in drum : TRUE).CurrentGrid])
    /\ UNCHANGED <<db, wdb, lock>>

(* Mutant: the drum is cleared first, the history is not written before *)
UpdateDrumOut_Hist_ClearFirst(s) ==
    /\ sess[s].pc = "out_hist"
    /\ WriteFirst(s, UpdateDrumsOut(db, sess[s].drum_id, sess[s].now))
    /\ UNCHANGED clock
    /\ Set(s, [sess[s] EXCEPT !.pc = "out_drums"])

(* update_drum_out, app.py:107-110 *)
UpdateDrumOut_Hist(s) ==
    /\ sess[s].pc = "out_hist"
    /\ WriteFirst(s, InsertHistory(db, sess[s].drum_id,
                                   CHOOSE row \in sess[s].drum : TRUE,
                                   sess[s].grid_id, sess[s].now))
    /\ UNCHANGED clock
    /\ Set(s, [sess[s] EXCEPT !.pc = "out_drums"])

(* update_drum_out, app.py:112 *)
UpdateDrumOut_Drums(s) ==
    /\ sess[s].pc = "out_drums"
    /\ WriteMore(s, UpdateDrumsOut(wdb, sess[s].drum_id, sess[s].now))
    /\ Set(s, [sess[s] EXCEPT !.pc = "out_grids"])

(* update_drum_out, app.py:113 *)
UpdateDrumOut_Grids(s) ==
    /\ sess[s].pc = "out_grids"
    /\ WriteMore(s, UpdateGridsAvailable(wdb, sess[s].grid_id))
    /\ Set(s, [sess[s] EXCEPT !.pc = "out_txn"])

(* update_drum_out, app.py:114 *)
UpdateDrumOut_Txn(s) ==
    /\ sess[s].pc = "out_txn"
    /\ WriteMore(s, InsertTransaction(wdb, sess[s].drum_id, sess[s].grid_id,
                                      "OUT", sess[s].now))
    /\ Set(s, [sess[s] EXCEPT !.pc = "out_commit"])

(* update_drum_out, app.py:115-116, then app.py:195 *)
UpdateDrumOut_Commit(s) ==
    /\ sess[s].pc = "out_commit"
    /\ CommitBy(s)
    /\ Set(s, IdleWith("retrieved"))

----------------------------------------------------------------------------
(* Sidebar: Reset All Data, app.py:215-226 *)

Reset_DeleteDrums(s) ==
    /\ sess[s].pc = "idle"
    /\ WriteFirst(s, DeleteDrums(db))
    /\ UNCHANGED clock
    /\ Set(s, [IdleWith("none") EXCEPT !.pc = "reset_grids", !.button = "reset"])

Reset_DeleteGrids(s) ==
    /\ sess[s].pc = "reset_grids"
    /\ WriteMore(s, DeleteGrids(wdb))
    /\ Set(s, [sess[s] EXCEPT !.pc = "reset_txns"])

Reset_DeleteTransactions(s) ==
    /\ sess[s].pc = "reset_txns"
    /\ WriteMore(s, DeleteTransactions(wdb))
    /\ Set(s, [sess[s] EXCEPT !.pc = "reset_hist"])

Reset_DeleteHistory(s) ==
    /\ sess[s].pc = "reset_hist"
    /\ WriteMore(s, DeleteHistory(wdb))
    /\ Set(s, [sess[s] EXCEPT !.pc = "reset_seed"])

Reset_Seed(s) ==
    /\ sess[s].pc = "reset_seed"
    /\ WriteMore(s, ReseedGrids(wdb))
    /\ Set(s, [sess[s] EXCEPT !.pc = "reset_commit"])

Reset_Commit(s) ==
    /\ sess[s].pc = "reset_commit"
    /\ CommitBy(s)
    /\ Set(s, IdleWith("reset"))

----------------------------------------------------------------------------
(* SQLite refuses a second writer: the statement that would open a
   transaction raises "database is locked" and the run ends with nothing
   written.  From idle this is the reset button's first DELETE. *)
FirstWritePcs == {"idle", "in_save", "in_place_drums", "out_hist"}

Busy(s) ==
    /\ sess[s].pc \in FirstWritePcs
    /\ lock \notin {0, s}
    /\ Set(s, IdleWith("store_unavailable"))
    /\ UNCHANGED <<db, wdb, lock, clock>>

----------------------------------------------------------------------------
(* Read-only pages: dashboard (app.py:123-147) and the list of available
   grids on the Drum IN page (app.py:172-174).  Each pd.read_sql_query is a
   SELECT of its own; the page shows the rows it returned. *)
Queries == {"by_order", "grids", "drums", "history", "available"}

(* Mutant: a SELECT sees the uncommitted rows of the connection that is
   writing *)
read_sql_query_Dirty(s) == wdb

(* What a SELECT of a connection with no open transaction sees *)
read_sql_query(s) == db

Project(q, o, store) ==
    CASE q = "by_order" -> get_drums_by_orderno(store, o)
      [] q = "grids" -> get_all_grids(store)
      [] q = "drums" -> get_all_drums(store)
      [] q = "history" -> get_drum_history(store)
      [] q = "available" ->
             {store.grids[g] : g \in get_available_grids(store)}

Query(s, q, o) ==
    /\ sess[s].pc = "idle"
    /\ Set(s, [IdleWith("shown") EXCEPT
                   !.button = q, !.order_no = o,
                   !.drum = Project(q, o, read_sql_query(s))])
    /\ UNCHANGED <<db, wdb, lock, clock>>

(* The run dies inside its transaction (an exception of a statement, the
   process killed): the connection goes away without conn.commit() and
   SQLite rolls the transaction back. *)
Crash(s) ==
    /\ lock = s
    /\ wdb' = db
    /\ lock' = 0
    /\ Set(s, IdleWith("crashed"))
    /\ UNCHANGED <<db, clock>>

----------------------------------------------------------------------------

Next ==
    \E s \in Sessions :
        \/ \E d \in DrumIDs, o \in OrderNos, r \in RAs : SaveDrumClick(s, d, o, r)
        \/ \E d \in DrumIDs, g \in GridInputs : PlaceDrumClick(s, d, g)
        \/ \E d \in DrumIDs : DrumOutGetDrum(s, d)
        \/ InsertDrum(s)
        \/ UpdateDrumInfo(s)
        \/ SaveCommit(s)
        \/ UpdateDrumIn_Drums(s)
        \/ UpdateDrumIn_Grids(s)
        \/ UpdateDrumIn_Txn(s)
        \/ UpdateDrumIn_Commit(s)
        \/ UpdateDrumOut_Read(s)
        \/ UpdateDrumOut_Hist(s)
        \/ UpdateDrumOut_Drums(s)
        \/ UpdateDrumOut_Grids(s)
        \/ UpdateDrumOut_Txn(s)
        \/ UpdateDrumOut_Commit(s)
        \/ Reset_DeleteDrums(s)
        \/ Reset_DeleteGrids(s)
        \/ Reset_DeleteTransactions(s)
        \/ Reset_DeleteHistory(s)
        \/ Reset_Seed(s)
        \/ Reset_Commit(s)
        \/ Busy(s)
        \/ Crash(s)

Spec == Init /\ [][Next]_vars

(* The same sessions, also opening the read-only pages *)
ReadNext ==
    \E s \in Sessions :
        \/ \E q \in Queries \ {"by_order"} : Query(s, q, NULL)
        \/ \E o \in OrderNos : Query(s, "by_order", o)

SpecReads == Init /\ [][Next \/ ReadNext]_vars

(* The app started on the inventory.db an earlier run left, app.py:9-54:
   CREATE TABLE IF NOT EXISTS and INSERT OR IGNORE keep what is there.
   Here the earlier run registered the first drum and placed it on the
   first slot, at time 1. *)
StoreLeftPlaced ==
    LET d == DrumNames[1]
        g == GridNames[1]
        registered == insert_drum(create_tables, d, OrderNames[1], "M1", 1)
    IN  InsertTransaction(
            UpdateGridsOccupied(UpdateDrumsIn(registered, d, g, 1), d, g),
            d, g, "IN", 1)

InitPlaced ==
    /\ db = [StoreLeftPlaced EXCEPT !.grids = SeedGrids(@)]
    /\ wdb = db
    /\ lock = 0
    /\ sess = [s \in Sessions |-> IdleWith("none")]
    /\ clock = 2

SpecPlaced == InitPlaced /\ [][Next]_vars

----------------------------------------------------------------------------
(* Properties of the committed database *)

Drums == DOMAIN db.drums
Grids == DOMAIN db.grids

DrumsAt(g) == {d \in Drums : db.drums[d].CurrentGrid = g}

(* C1: every Occupied grid is the CurrentGrid of exactly one drum, and that
   drum is the grid's CurrentDrumID; no drum's CurrentGrid is an Available
   grid. *)
C1_Exclusivity ==
    /\ \A g \in Grids :
          db.grids[g].Status = "Occupied" =>
              /\ Cardinality(DrumsAt(g)) = 1
              /\ db.grids[g].CurrentDrumID \in DrumsAt(g)
    /\ \A g \in Grids :
          db.grids[g].Status = "Available" => DrumsAt(g) = {}

(* C2: a drum is IN exactly when its CurrentGrid is an existing grid whose
   CurrentDrumID is that drum. *)
C2_DrumConsistency ==
    \A d \in Drums :
        db.drums[d].Status = "IN" <=>
            /\ db.drums[d].CurrentGrid \in Grids
            /\ db.grids[db.drums[d].CurrentGrid].CurrentDrumID = d

(* C3: no drum id is the CurrentDrumID of two grids. *)
C3_OneGridPerDrum ==
    \A g1, g2 \in Grids :
        /\ db.grids[g1].CurrentDrumID # NULL
        /\ db.grids[g1].CurrentDrumID = db.grids[g2].CurrentDrumID
        => g1 = g2

(* C4: a placement never commits onto a grid that the committed database
   already gives to another drum, and no grid is the CurrentGrid of two
   drums. *)
NoSharedGrid == \A g \in Grids : Cardinality(DrumsAt(g)) <= 1

C4_NoDoublePlacement ==
    [][/\ \A s \in Sessions :
             UpdateDrumIn_Commit(s) =>
                 ~ /\ db.grids[sess[s].grid_id].Status = "Occupied"
                   /\ db.grids[sess[s].grid_id].CurrentDrumID # sess[s].drum_id
       /\ NoSharedGrid']_vars

(* C5: a placement for a drum id without a drum record is rejected at the
   button and commits no change. *)
C5_UnregisteredRejected ==
    [][\A s \in Sessions :
          /\ \A d \in DrumIDs, g \in GridInputs :
                PlaceDrumClick(s, d, g) /\ d \notin Drums =>
                    /\ sess'[s].pc = "idle"
                    /\ sess'[s].result \in {"drum_not_found", "grid_unavailable"}
          /\ UpdateDrumIn_Commit(s) /\ sess[s].drum_id \notin Drums => db' = db]_vars

(* C6: pressing "Place Drum in Grid" for a grid that does not exist or is
   Occupied in the committed database ends the run with the grid-unavailable
   message; nothing is written and no transaction is opened. *)
C6_UnavailableRejected ==
    [][\A s \in Sessions, d \in DrumIDs, g \in GridInputs :
          /\ PlaceDrumClick(s, d, g)
          /\ (g \notin Grids \/ db.grids[g].Status = "Occupied")
          => /\ sess'[s] = IdleWith("grid_unavailable")
             /\ db' = db
             /\ lock' = lock]_vars

C6_Witness ==
    \E s \in Sessions :
        /\ sess[s].result = "grid_unavailable"
        /\ \E g \in Grids : db.grids[g].Status = "Occupied"

(* C7: the commit of a placement of a registered OUT drum d onto an
   Available grid g changes the committed database in one step to: d IN at
   g, g Occupied by d, one more TransactionRecord (d, g, IN); every other
   drum and grid and the history are as before, and d and g name each
   other. *)
C7_PlacementEffect ==
    [][\A s \in Sessions :
          LET d == sess[s].drum_id
              g == sess[s].grid_id
          IN  /\ UpdateDrumIn_Commit(s)
              /\ d \in Drums
              /\ db.drums[d].Status = "OUT"
              /\ db.grids[g].Status = "Available"
              => /\ db'.drums = [db.drums EXCEPT ![d] =
                        DrumRow(d, db.drums[d].OrderNo, db.drums[d].RA, "IN", g,
                                sess[s].now)]
                 /\ db'.grids = [db.grids EXCEPT ![g] = GridRow(g, "Occupied", d)]
                 /\ db'.transactions =
                        Append(db.transactions,
                               TxnRow(db.txn_seq + 1, d, g, "IN", sess[s].now))
                 /\ db'.drum_history = db.drum_history
                 /\ db'.drums[d].CurrentGrid = g
                 /\ db'.grids[g].CurrentDrumID = d]_vars

C7_Witness ==
    \E s \in Sessions, d \in Drums, g \in Grids :
        /\ sess[s].result = "placed"
        /\ db.drums[d].Status = "IN"
        /\ db.drums[d].CurrentGrid = g
        /\ db.grids[g] = GridRow(g, "Occupied", d)
        /\ Len(db.transactions) > 0
        /\ LET last == db.transactions[Len(db.transactions)]
           IN  last.DrumID = d /\ last.GridID = g /\ last.Status = "IN"

(* C8: a successful retrieval reads the drum's committed row when it starts,
   keeps it, and commits exactly one more HistoryRecord carrying that row's
   OrderNo, RA and CurrentGrid; after the commit the drum row has no OrderNo,
   RA or CurrentGrid and is OUT, and the vacated grid is Available with no
   occupant. *)
InRetrieval(s) ==
    sess[s].pc \in {"out_hist", "out_drums", "out_grids", "out_txn", "out_commit"}

C8_HistoryCompleteness ==
    [][\A s \in Sessions :
          LET d == sess[s].drum_id
          IN  /\ UpdateDrumOut_Read(s) /\ sess'[s].pc = "out_hist"
                 => /\ d \in Drums
                    /\ sess'[s].drum = {db.drums[d]}
                    /\ sess'[s].grid_id = db.drums[d].CurrentGrid
              /\ InRetrieval(s) /\ InRetrieval(s)'
                 => /\ sess'[s].drum = sess[s].drum
                    /\ sess'[s].grid_id = sess[s].grid_id
              /\ UpdateDrumOut_Commit(s)
                 => /\ \E row \in sess[s].drum :
                          db'.drum_history =
                              Append(db.drum_history,
                                     HistRow(db.hist_seq + 1, d, row.OrderNo, row.RA,
                                             "OUT", row.CurrentGrid, sess[s].now))
                    /\ \A row \in get_drum(db', d) :
                          /\ row.OrderNo = NULL
                          /\ row.RA = NULL
                          /\ row.Status = "OUT"
                          /\ row.CurrentGrid = NULL
                    /\ db'.grids[sess[s].grid_id] =
                           GridRow(sess[s].grid_id, "Available", NULL)]_vars

C8_Witness ==
    \E s \in Sessions, d \in Drums :
        /\ sess[s].result = "retrieved"
        /\ Len(db.drum_history) = 1
        /\ db.drum_history[1].DrumID = d
        /\ db.drum_history[1].OrderNo \in OrderNos
        /\ db.drum_history[1].RA \in RAs
        /\ db.drum_history[1].GridID \in Grids
        /\ db.drums[d].Status = "OUT"
        /\ db.drums[d].OrderNo = NULL
        /\ db.grids[db.drum_history[1].GridID].Status = "Available"

(* C9: a retrieval of a drum that does not exist or is not IN ends with a
   failure message and writes nothing; a retrieval that commits appends
   exactly one HistoryRecord and one OUT TransactionRecord and leaves the
   drum not IN, so that the next retrieval of it fails. *)
RetrievalFailures == {"not_found", "already_out", "not_placed"}

OutTxns(store) ==
    {i \in 1..Len(store.transactions) : store.transactions[i].Status = "OUT"}

C9_IdempotentFailure ==
    [][\A s \in Sessions :
          /\ \A d \in DrumIDs :
                /\ DrumOutGetDrum(s, d)
                /\ (d \notin Drums \/ db.drums[d].Status # "IN")
                => /\ sess'[s].pc = "idle"
                   /\ sess'[s].result \in RetrievalFailures
                   /\ db' = db
                   /\ lock' = lock
          /\ /\ UpdateDrumOut_Read(s)
             /\ (sess[s].drum_id \notin Drums
                   \/ db.drums[sess[s].drum_id].Status # "IN")
             => /\ sess'[s].pc = "idle"
                /\ sess'[s].result \in RetrievalFailures
                /\ db' = db
                /\ lock' = lock
          /\ UpdateDrumOut_Commit(s)
             => /\ Len(db'.drum_history) = Len(db.drum_history) + 1
                /\ Cardinality(OutTxns(db')) = Cardinality(OutTxns(db)) + 1
                /\ Len(db'.transactions) = Len(db.transactions) + 1
                /\ \A row \in get_drum(db', sess[s].drum_id) :
                      row.Status # "IN" /\ row.CurrentGrid = NULL]_vars

C9_Witness ==
    \E s \in Sessions, d \in Drums :
        /\ sess[s].result = "already_out"
        /\ db.drums[d].Status = "OUT"
        /\ Len(db.drum_history) = 1
        /\ db.drum_history[1].DrumID = d
        /\ Cardinality(OutTxns(db)) = 1
        /\ \A t \in Sessions : sess[t].pc = "idle"

(* C10: when the reset commits, the committed database has no drums, no
   TransactionRecords and no HistoryRecords, and its grids are exactly the
   nine slots A1..C3, each Available with no occupant. *)
C10_ResetPostcondition ==
    [][\A s \in Sessions :
          Reset_Commit(s) =>
              /\ DOMAIN db'.drums = {}
              /\ db'.transactions = <<>>
              /\ db'.drum_history = <<>>
              /\ DOMAIN db'.grids = FixedGrids
              /\ Cardinality(DOMAIN db'.grids) = 9
              /\ \A g \in FixedGrids :
                    db'.grids[g] = GridRow(g, "Available", NULL)]_vars

C10_Witness ==
    \E s \in Sessions :
        /\ sess[s].result = "reset"
        /\ db.txn_seq > 0
        /\ db.hist_seq > 0
        /\ db.transactions = <<>>
        /\ db.drum_history = <<>>
        /\ Drums = {}
        /\ \A g \in Grids : db.grids[g].Status = "Available"

(* C11: the committed database changes only at a conn.commit(), and then to
   what the committing connection wrote; a run that dies inside its
   transaction leaves the committed database as it was before the
   transaction began and nothing of it remains for later commits. *)
CommitPcs == {"in_save_commit", "in_place_commit", "out_commit", "reset_commit"}

C11_AllOrNothing ==
    [][/\ db' # db =>
             \E s \in Sessions :
                 /\ lock = s
                 /\ sess[s].pc \in CommitPcs
                 /\ sess'[s].pc = "idle"
                 /\ db' = wdb
       /\ \A s \in Sessions :
             Crash(s) => db' = db /\ wdb' = db /\ lock' = 0
       /\ lock' = 0 => wdb' = db']_vars

C11_Witness ==
    \E s \in Sessions :
        /\ sess[s].result = "crashed"
        /\ lock = 0
        /\ wdb = db
        /\ Drums # {}
        /\ \A g \in Grids : db.grids[g].Status = "Available"
        /\ db.transactions = <<>>

(* C12: the rows a read projection returns are those of the committed
   database at that moment, also while another connection is inside a
   placement, retrieval or reset: nothing of an open transaction is seen. *)
C12_NoDirtyReads ==
    [][\A s \in Sessions, q \in Queries, o \in OrderNos \cup {NULL} :
          Query(s, q, o) =>
              /\ sess'[s].drum = Project(q, o, db)
              /\ (lock # 0 /\ Project(q, o, wdb) # Project(q, o, db)
                    => sess'[s].drum # Project(q, o, wdb))]_vars

C12_Witness ==
    \E s \in Sessions, t \in Sessions :
        /\ sess[s].result = "shown"
        /\ sess[s].button = "drums"
        /\ lock = t
        /\ sess[t].pc = "out_grids"
        /\ sess[s].drum = get_all_drums(db)
        /\ sess[s].drum # get_all_drums(wdb)
        /\ get_drum_history(wdb) # get_drum_history(db)

(* C13: a retrieval is one serializable unit: when it commits, the drum row
   it read at the start is still the committed one (the drum is still IN on
   the grid the retrieval frees), so of two concurrent retrievals of one
   placed drum only one can commit a HistoryRecord and an OUT transaction. *)
C13_SerializableRetrieval ==
    [][\A s \in Sessions :
          UpdateDrumOut_Commit(s) /\ sess[s].drum_id \in Drums =>
              /\ db.drums[sess[s].drum_id].Status = "IN"
              /\ db.drums[sess[s].drum_id].CurrentGrid = sess[s].grid_id]_vars

(* C14: a registration of drum d with (o, r) commits a change of d's row
   only: no grid, no transaction, no history record and no other drum is
   changed, and no other drum appears. If d has a row, or the registration
   found none when it read, d's row afterwards is (d, o, r, OUT, no grid):
   created if there was none, overwritten if there was one. *)
C14_RegistrationEffect ==
    [][\A s \in Sessions :
          SaveCommit(s) =>
              LET d == sess[s].drum_id
              IN  /\ db'.grids = db.grids
                  /\ db'.transactions = db.transactions
                  /\ db'.drum_history = db.drum_history
                  /\ db'.txn_seq = db.txn_seq
                  /\ db'.hist_seq = db.hist_seq
                  /\ DOMAIN db'.drums \subseteq Drums \cup {d}
                  /\ \A x \in Drums \ {d} :
                        x \in DOMAIN db'.drums /\ db'.drums[x] = db.drums[x]
                  /\ (d \in Drums \/ sess[s].drum = {})
                        => /\ d \in DOMAIN db'.drums
                           /\ db'.drums[d] =
                                  DrumRow(d, sess[s].order_no, sess[s].ra, "OUT",
                                          NULL, sess[s].now)]_vars

(* Two registrations of one drum: the second found no row when it read and
   overwrites the row the first created *)
C14_Witness ==
    /\ \A s \in Sessions : sess[s].result = "saved"
    /\ Cardinality(Drums) = 1
    /\ \A d \in Drums : db.drums[d].LastUpdated = 2 /\ db.drums[d].Status = "OUT"
    /\ db.txn_seq = 0
    /\ lock = 0

(* C15: a registration can commit on a drum that the committed database has
   IN on a grid it occupies; the drum then is OUT with no CurrentGrid, and
   the grid is left as it was, Occupied with that drum as CurrentDrumID. *)
C15_ReRegistrationOfPlaced ==
    [][\A s \in Sessions :
          LET d == sess[s].drum_id
          IN  (/\ SaveCommit(s)
               /\ d \in Drums
               /\ db.drums[d].Status = "IN"
               /\ db.drums[d].CurrentGrid \in Grids
               /\ db.grids[db.drums[d].CurrentGrid] =
                      GridRow(db.drums[d].CurrentGrid, "Occupied", d))
              => /\ d \in DOMAIN db'.drums
                 /\ db'.drums[d].Status = "OUT"
                 /\ db'.drums[d].CurrentGrid = NULL
                 /\ db'.grids[db.drums[d].CurrentGrid] =
                        GridRow(db.drums[d].CurrentGrid, "Occupied", d)]_vars

(* After such a registration: the one placement logged, nothing retrieved,
   the drum OUT with its new order, its grid still Occupied by it *)
C15_Witness ==
    \E s \in Sessions, d \in Drums, g \in Grids :
        /\ sess[s].result = "saved"
        /\ lock = 0
        /\ db.transactions = <<TxnRow(1, d, g, "IN", 2)>>
        /\ db.drum_history = <<>>
        /\ db.drums[d].Status = "OUT"
        /\ db.drums[d].CurrentGrid = NULL
        /\ db.drums[d].LastUpdated = 3
        /\ db.grids[g] = GridRow(g, "Occupied", d)

(* C16: inside a retrieval the working copy of the open transaction grows in
   this order: first the HistoryRecord, carrying the row read, while drums,
   grids and transactions are still as committed; then the drum is cleared;
   then the grid is freed; the OUT transaction is appended last. The
   committed database does not change before the commit, and whenever the
   working copy has the drum changed it already has the HistoryRecord. *)
C16_RetrievalStepOrder ==
    \A s \in Sessions :
        LET d == sess[s].drum_id
            g == sess[s].grid_id
            pc == sess[s].pc
            cleared == \A row \in get_drum(wdb, d) :
                           /\ row.Status = "OUT"
                           /\ row.OrderNo = NULL
                           /\ row.RA = NULL
                           /\ row.CurrentGrid = NULL
            freed == g \in DOMAIN wdb.grids => wdb.grids[g] = GridRow(g, "Available", NULL)
        IN  /\ pc = "out_hist" => lock # s
            /\ pc \in {"out_drums", "out_grids", "out_txn", "out_commit"}
                  => /\ lock = s
                     /\ \E row \in sess[s].drum :
                           wdb.drum_history =
                               Append(db.drum_history,
                                      HistRow(db.hist_seq + 1, d, row.OrderNo, row.RA,
                                              "OUT", g, sess[s].now))
            /\ pc = "out_drums"
                  => /\ wdb.drums = db.drums
                     /\ wdb.grids = db.grids
                     /\ wdb.transactions = db.transactions
            /\ pc = "out_grids"
                  => /\ cleared
                     /\ wdb.grids = db.grids
                     /\ wdb.transactions = db.transactions
            /\ pc = "out_txn"
                  => /\ cleared
                     /\ freed
                     /\ wdb.transactions = db.transactions
            /\ pc = "out_commit"
                  => /\ cleared
                     /\ freed
                     /\ wdb.transactions =
                            Append(db.transactions,
                                   TxnRow(db.txn_seq + 1, d, g, "OUT", sess[s].now))
            /\ (InRetrieval(s) /\ lock = s /\ wdb.drums # db.drums)
                  => Len(wdb.drum_history) = Len(db.drum_history) + 1

(* Mid-retrieval: history written and drum cleared in the working copy, the
   grid not yet freed, the committed drum still IN *)
C16_Witness ==
    \E s \in Sessions :
        /\ sess[s].pc = "out_grids"
        /\ lock = s
        /\ sess[s].drum_id \in Drums
        /\ db.drums[sess[s].drum_id].Status = "IN"
        /\ wdb.drums[sess[s].drum_id].OrderNo = NULL
        /\ Len(wdb.drum_history) = Len(db.drum_history) + 1
        /\ wdb.grids[sess[s].grid_id].Status = "Occupied"

(* C17: except at the commit of a reset, the committed transactions and the
   committed history are kept, record for record, and only extended at the
   end; the commit of a placement or of a retrieval extends the transactions
   by exactly one record, and no other step (a refused press, a statement
   inside a transaction, a registration, a rollback) changes them. *)
IsPrefix(a, b) == Len(a) <= Len(b) /\ SubSeq(b, 1, Len(a)) = a

C17_AppendOnlyLogs ==
    [][/\ (~ \E s \in Sessions : Reset_Commit(s))
          => /\ IsPrefix(db.transactions, db'.transactions)
             /\ IsPrefix(db.drum_history, db'.drum_history)
       /\ \A s \in Sessions :
             UpdateDrumIn_Commit(s) \/ UpdateDrumOut_Commit(s)
                => Len(db'.transactions) = Len(db.transactions) + 1
       /\ (~ \E s \in Sessions : \/ UpdateDrumIn_Commit(s)
                                  \/ UpdateDrumOut_Commit(s)
                                  \/ Reset_Commit(s))
          => /\ db'.transactions = db.transactions
             /\ db'.drum_history = db.drum_history]_vars

(* A placement and then a retrieval committed: two transactions, one history *)
C17_Witness ==
    /\ Len(db.transactions) = 2
    /\ db.transactions[1].Status = "IN"
    /\ db.transactions[2].Status = "OUT"
    /\ Len(db.drum_history) = 1
    /\ \E s \in Sessions : sess[s].result = "retrieved"
    /\ lock = 0

(* C18: in the committed database every drum has a CurrentGrid exactly when
   its Status is IN, whether or not that grid names the drum. *)
C18_LocalDrumConsistency ==
    \A d \in Drums :
        /\ db.drums[d].Status \in {"IN", "OUT"}
        /\ db.drums[d].CurrentGrid # NULL <=> db.drums[d].Status = "IN"

(* Both cases at once: one drum registered and OUT without a grid, another
   drum placed, IN with the grid it was put on *)
C18_Witness ==
    \E d \in Drums, e \in Drums, g \in Grids :
        /\ db.drums[d].Status = "OUT"
        /\ db.drums[d].CurrentGrid = NULL
        /\ db.drums[e].Status = "IN"
        /\ db.drums[e].CurrentGrid = g
        /\ lock = 0

(* C19: in the committed database a grid is Occupied exactly when the
   latest transaction logged for it (the table is emptied by a reset) is an
   IN; a grid with no transaction logged is Available. *)
TxnsOf(g) == {i \in 1..Len(db.transactions) : db.transactions[i].GridID = g}

LastTxnOf(g) == CHOOSE i \in TxnsOf(g) : \A k \in TxnsOf(g) : k <= i

C19_LogAgreesWithGrids ==
    \A g \in Grids :
        /\ db.grids[g].Status \in {"Occupied", "Available"}
        /\ db.grids[g].Status = "Occupied"
              <=> /\ TxnsOf(g) # {}
                  /\ db.transactions[LastTxnOf(g)].Status = "IN"

(* A grid freed by a retrieval, its latest transaction an OUT after an IN *)
C19_Witness ==
    \E g \in Grids :
        /\ db.grids[g].Status = "Available"
        /\ Cardinality(TxnsOf(g)) = 2
        /\ db.transactions[LastTxnOf(g)].Status = "OUT"
        /\ lock = 0

(* C20: in the committed database there are as many HistoryRecords as OUT
   transactions, and the k-th HistoryRecord and the k-th OUT transaction
   carry the same drum id, grid id and timestamp. *)
OutTxnIndexes == {i \in 1..Len(db.transactions) : db.transactions[i].Status = "OUT"}

C20_HistoryPairedWithOut ==
    /\ Len(db.drum_history) = Cardinality(OutTxnIndexes)
    /\ \A k \in 1..Len(db.drum_history) :
          \E i \in OutTxnIndexes :
              /\ Cardinality({j \in OutTxnIndexes : j <= i}) = k
              /\ db.transactions[i].DrumID = db.drum_history[k].DrumID
              /\ db.transactions[i].GridID = db.drum_history[k].GridID
              /\ db.transactions[i].Timestamp = db.drum_history[k].Timestamp

(* One retrieval committed: its HistoryRecord and its OUT transaction *)
C20_Witness ==
    \E i \in OutTxnIndexes :
        /\ Len(db.drum_history) = 1
        /\ db.drum_history[1].Status = "OUT"
        /\ db.drum_history[1].OrderNo # NULL
        /\ db.drum_history[1].Timestamp = db.transactions[i].Timestamp
        /\ db.drum_history[1].DrumID = db.transactions[i].DrumID

====
